---- MODULE Spec2Model ----
(***************************************************************************)
(* Model of the two listings of the repository:                            *)
(*   code/ch04/listing_4_7/src/main.rs   main, first_word                  *)
(*   code/ch05/listing_5_4/src/main.rs   User, build_user, main            *)
(*                                                                         *)
(* A String is modelled by its text, a sequence of Unicode code points.    *)
(* s.as_bytes() and s.len() go through the UTF-8 encoding, so that byte    *)
(* offsets and character offsets are different things in the model.        *)
(***************************************************************************)
EXTENDS Integers, Sequences, FiniteSets

\* ---------------------------------------------------------------- bounds
\* longest text (in characters) handed to first_word
MaxChars == 3
\* number of successive calls of first_word on the same buffer
NumCalls == 2

\* characters the bounded texts are built from:
\* space, tab, newline, 'h', U+00E9 (2 bytes), U+20AC (3 bytes)
Chars == {32, 9, 10, 104, 233, 8364}

\* text values handed to build_user
Texts == {"someone@example.com", "someusername123", ""}

RECURSIVE SeqsUpTo(_, _)
SeqsUpTo(S, n) ==
    IF n = 0 THEN {<<>>}
    ELSE LET shorter == SeqsUpTo(S, n - 1)
         IN  shorter \cup {Append(t, c) : t \in {u \in shorter : Len(u) = n - 1}, c \in S}

\* ------------------------------------------------------- listing 4-7 data
\* b' '
Space == 32

\* the literal "hello, world!"
HelloWorld == <<104, 101, 108, 108, 111, 44, 32, 119, 111, 114, 108, 100, 33>>

\* UTF-8 encoding of one code point (code points below 2^16)
Utf8(cp) ==
    IF cp < 128 THEN <<cp>>
    ELSE IF cp < 2048 THEN <<192 + (cp \div 64), 128 + (cp % 64)>>
    ELSE <<224 + (cp \div 4096), 128 + ((cp \div 64) % 64), 128 + (cp % 64)>>

\* s.as_bytes(): the UTF-8 bytes of the text
RECURSIVE AsBytes(_)
AsBytes(str) ==
    IF str = <<>> THEN <<>> ELSE Utf8(Head(str)) \o AsBytes(Tail(str))

\* s.len(): the length in bytes
StringLen(str) == Len(AsBytes(str))

\* mutant of IsSpace: any ASCII whitespace is a delimiter
IsSpaceAnyWhitespace(item) == item \in {Space, 9, 10}

\* mutant of IsSpace: the tab is the delimiter
IsSpaceTab(item) == item = 9

\* item == b' '
IsSpace(item) == item = Space

\* mutant of ReturnIndex: the offset after the space
ReturnIndexAfter(i) == i + 1

\* return i
ReturnIndex(i) == i

\* mutant of FallThrough: the last valid index
FallThroughLast(str) == IF StringLen(str) = 0 THEN 0 ELSE StringLen(str) - 1

\* the value of the function when the loop ends: s.len()
FallThrough(str) == StringLen(str)

\* println!("{first_word}"): the decimal digits of the value, then a newline
RECURSIVE ToDecimal(_)
ToDecimal(n) ==
    IF n < 10 THEN <<48 + n>> ELSE ToDecimal(n \div 10) \o <<48 + (n % 10)>>

\* mutant of PrintLine: print! instead of println!
PrintLineNoNewline(n) == ToDecimal(n)

PrintLine(n) == ToDecimal(n) \o <<10>>

\* ------------------------------------------------------- listing 5-4 data
\* mutant of build_user: the two text fields swapped
build_user_swapped(em, un) ==
    [active |-> TRUE, username |-> em, email |-> un, sign_in_count |-> 1]

build_user(em, un) ==
    [active |-> TRUE, username |-> un, email |-> em, sign_in_count |-> 1]

\* ------------------------------------------------------------------ state
VARIABLES
    prog,       \* which entry point runs: a listing's main, or a call of one function
    pc,         \* position in the code
    s,          \* the String (its text) that first_word is called on
    bytes,      \* first_word's local `bytes`
    count,      \* the counter of bytes.iter().enumerate()
    cur,        \* the loop's current (i, &item), <<>> when there is none
    ret,        \* the value first_word returned, <<>> before it returns
    examined,   \* history: the indices the current call has read, in order
    results,    \* the caller's bindings of first_word's results
    stdout,     \* the lines written to standard output
    exitCode,   \* <<>> while running, <<0>> after a successful exit
    email,      \* build_user's arguments
    username,
    built       \* the records build_user has returned

vars == <<prog, pc, s, bytes, count, cur, ret, examined, results, stdout,
          exitCode, email, username, built>>

FwPcs == {"fw_entry", "fw_iter", "fw_body", "fw_fall"}

Init ==
    /\ prog \in {"listing_4_7", "listing_5_4", "first_word", "build_user"}
    /\ pc = CASE prog = "listing_4_7" -> "main"
              [] prog = "listing_5_4" -> "main"
              [] prog = "first_word"  -> "fw_entry"
              [] prog = "build_user"  -> "bu_entry"
    /\ IF prog = "first_word" THEN s \in SeqsUpTo(Chars, MaxChars) ELSE s = <<>>
    /\ IF prog = "build_user"
       THEN email \in Texts /\ username \in Texts
       ELSE email = "" /\ username = ""
    /\ bytes = <<>>
    /\ count = 0
    /\ cur = <<>>
    /\ ret = <<>>
    /\ examined = <<>>
    /\ results = <<>>
    /\ stdout = <<>>
    /\ exitCode = <<>>
    /\ built = <<>>

\* ------------------------------------------------------------ listing 4-7
\* let string = String::from("hello, world!"); first_word(&string)
Main47Call ==
    /\ prog = "listing_4_7" /\ pc = "main"
    /\ s' = HelloWorld
    /\ pc' = "fw_entry"
    /\ UNCHANGED <<prog, bytes, count, cur, ret, examined, results, stdout,
                   exitCode, email, username, built>>

\* mutant of FwEntry: the enumeration is not restarted by a new call
FwEntryKeepCount ==
    /\ pc = "fw_entry"
    /\ bytes' = AsBytes(s)
    /\ cur' = <<>>
    /\ ret' = <<>>
    /\ examined' = <<>>
    /\ pc' = "fw_iter"
    /\ UNCHANGED <<prog, s, count, results, stdout, exitCode, email, username, built>>

\* let bytes = s.as_bytes(); bytes.iter().enumerate()
FwEntry ==
    /\ pc = "fw_entry"
    /\ bytes' = AsBytes(s)
    /\ count' = 0
    /\ cur' = <<>>
    /\ ret' = <<>>
    /\ examined' = <<>>
    /\ pc' = "fw_iter"
    /\ UNCHANGED <<prog, s, results, stdout, exitCode, email, username, built>>

\* mutant of FwIterNext: the scan consumes the buffer it reads
FwIterNextDrain ==
    /\ pc = "fw_iter"
    /\ IF count < Len(bytes)
       THEN /\ cur' = <<count, bytes[count + 1]>>
            /\ count' = count + 1
            /\ examined' = Append(examined, count)
            /\ s' = IF s = <<>> THEN s ELSE Tail(s)
            /\ pc' = "fw_body"
       ELSE /\ cur' = <<>>
            /\ pc' = "fw_fall"
            /\ UNCHANGED <<count, examined, s>>
    /\ UNCHANGED <<prog, bytes, ret, results, stdout, exitCode, email,
                   username, built>>

\* for (i, &item) in ...: the iterator's next()
FwIterNext ==
    /\ pc = "fw_iter"
    /\ IF count < Len(bytes)
       THEN /\ cur' = <<count, bytes[count + 1]>>
            /\ count' = count + 1
            /\ examined' = Append(examined, count)
            /\ pc' = "fw_body"
       ELSE /\ cur' = <<>>
            /\ pc' = "fw_fall"
            /\ UNCHANGED <<count, examined>>
    /\ UNCHANGED <<prog, s, bytes, ret, results, stdout, exitCode, email,
                   username, built>>

\* mutant of FwBody: no early exit, the last match found is returned at the end
FwBodyNoEarlyExit ==
    /\ pc = "fw_body"
    /\ IF IsSpace(cur[2])
       THEN /\ ret' = <<ReturnIndex(cur[1])>>
            /\ pc' = IF count < Len(bytes) THEN "fw_iter" ELSE "fw_ret"
       ELSE /\ pc' = "fw_iter"
            /\ UNCHANGED ret
    /\ UNCHANGED <<prog, s, bytes, count, cur, examined, results, stdout,
                   exitCode, email, username, built>>

\* if item == b' ' { return i; }
FwBody ==
    /\ pc = "fw_body"
    /\ IF IsSpace(cur[2])
       THEN /\ ret' = <<ReturnIndex(cur[1])>>
            /\ pc' = "fw_ret"
       ELSE /\ pc' = "fw_iter"
            /\ UNCHANGED ret
    /\ UNCHANGED <<prog, s, bytes, count, cur, examined, results, stdout,
                   exitCode, email, username, built>>

\* s.len()
FwFall ==
    /\ pc = "fw_fall"
    /\ ret' = <<FallThrough(s)>>
    /\ pc' = "fw_ret"
    /\ UNCHANGED <<prog, s, bytes, count, cur, examined, results, stdout,
                   exitCode, email, username, built>>

\* let first_word = first_word(&string);
Main47Bind ==
    /\ prog = "listing_4_7" /\ pc = "fw_ret"
    /\ results' = Append(results, ret[1])
    /\ pc' = "main_print"
    /\ UNCHANGED <<prog, s, bytes, count, cur, ret, examined, stdout,
                   exitCode, email, username, built>>

\* println!("{first_word}");
Main47Print ==
    /\ prog = "listing_4_7" /\ pc = "main_print"
    /\ stdout' = Append(stdout, PrintLine(results[1]))
    /\ pc' = "main_end"
    /\ UNCHANGED <<prog, s, bytes, count, cur, ret, examined, results,
                   exitCode, email, username, built>>

\* the closing brace of main
Main47Exit ==
    /\ prog = "listing_4_7" /\ pc = "main_end"
    /\ exitCode' = <<0>>
    /\ pc' = "exit"
    /\ UNCHANGED <<prog, s, bytes, count, cur, ret, examined, results, stdout,
                   email, username, built>>

\* a caller of first_word that calls it again on the same buffer
CallerBind ==
    /\ prog = "first_word" /\ pc = "fw_ret"
    /\ results' = Append(results, ret[1])
    /\ pc' = IF Len(results') < NumCalls THEN "fw_entry" ELSE "done"
    /\ UNCHANGED <<prog, s, bytes, count, cur, ret, examined, stdout,
                   exitCode, email, username, built>>

\* ------------------------------------------------------------ listing 5-4
\* mutant of Main54: main builds a user from the two literals before it ends
Main54BuildsUser ==
    /\ prog = "listing_5_4" /\ pc = "main"
    /\ built' = Append(built, build_user("someone@example.com", "someusername123"))
    /\ exitCode' = <<0>>
    /\ pc' = "exit"
    /\ UNCHANGED <<prog, s, bytes, count, cur, ret, examined, results, stdout,
                   email, username>>

\* fn main() {}
Main54 ==
    /\ prog = "listing_5_4" /\ pc = "main"
    /\ exitCode' = <<0>>
    /\ pc' = "exit"
    /\ UNCHANGED <<prog, s, bytes, count, cur, ret, examined, results, stdout,
                   email, username, built>>

\* a call build_user(email, username)
BuildUserCall ==
    /\ prog = "build_user" /\ pc = "bu_entry"
    /\ built' = Append(built, build_user(email, username))
    /\ pc' = "done"
    /\ UNCHANGED <<prog, s, bytes, count, cur, ret, examined, results, stdout,
                   exitCode, email, username>>

Next ==
    \/ Main47Call
    \/ FwEntry
    \/ FwIterNext
    \/ FwBody
    \/ FwFall
    \/ Main47Bind
    \/ Main47Print
    \/ Main47Exit
    \/ CallerBind
    \/ Main54
    \/ BuildUserCall

Spec == Init /\ [][Next]_vars

\* both programs are single-threaded and run to completion
FairSpec == Spec /\ WF_vars(Next)

\* ----------------------------------------------------------- properties
\* the buffer first_word works on, as bytes
Buffer == AsBytes(s)

NoSpaceIn(T) == \A j \in 1..Len(T) : T[j] # 32

\* the characters of a text that come before its first space character
RECURSIVE CharsBeforeSpace(_)
CharsBeforeSpace(str) ==
    IF str = <<>> \/ Head(str) = 32 THEN <<>>
    ELSE <<Head(str)>> \o CharsBeforeSpace(Tail(str))

\* C1: whenever first_word has returned i on buffer T, 0 <= i <= length(T) and
\* either i = length(T) and T holds no space byte, or T[i] is the space byte
\* and no byte before offset i is a space (the first match).
C1_FirstSpaceOrLength ==
    ret # <<>> =>
        LET T == Buffer
            i == ret[1]
        IN  /\ i \in 0..Len(T)
            /\ \/ i = Len(T) /\ NoSpaceIn(T)
               \/ /\ i < Len(T)
                  /\ T[i + 1] = 32
                  /\ \A j \in 1..i : T[j] # 32

\* a call has returned the first of two spaces
C1_Witness ==
    /\ prog = "first_word" /\ ret # <<>>
    /\ ret[1] >= 1
    /\ \E j \in (ret[1] + 2)..Len(Buffer) : Buffer[j] = 32

\* C2: first_word is total: a finished call always holds a defined result (a
\* natural number), the result is the byte length of the buffer when the
\* buffer holds no space byte, and 0 for the empty buffer.
C2_TotalAndFallThrough ==
    /\ pc \in FwPcs \cup {"main", "fw_ret", "main_print", "main_end", "exit",
                          "bu_entry", "done"}
    /\ pc = "fw_ret" => ret # <<>>
    /\ ret # <<>> =>
         /\ Len(ret) = 1 /\ ret[1] \in Nat
         /\ NoSpaceIn(Buffer) => ret[1] = Len(Buffer)
         /\ s = <<>> => ret[1] = 0

\* a call has returned on a non-empty buffer without any space
C2_Witness ==
    /\ prog = "first_word" /\ pc = "fw_ret"
    /\ s # <<>> /\ NoSpaceIn(Buffer)
    /\ ret = <<Len(Buffer)>>

\* C3: build_user(email, username) returns a record with active = true,
\* sign_in_count = 1, username = the username argument and email = the email
\* argument.
C3_BuildUserFields ==
    (prog = "build_user" /\ pc = "done") =>
        /\ Len(built) = 1
        /\ built[1].active = TRUE
        /\ built[1].sign_in_count = 1
        /\ built[1].username = username
        /\ built[1].email = email

\* the scenario of the specification: two different text values
C3_Witness ==
    /\ prog = "build_user" /\ pc = "done"
    /\ email = "someone@example.com" /\ username = "someusername123"
    /\ Len(built) = 1

\* C4 as stated: listing 4-7's main obtains 5 from first_word and has written
\* exactly the line "5\n" when it exits with success.
C4_Original ==
    (prog = "listing_4_7" /\ pc = "exit") =>
        /\ results = <<5>>
        /\ stdout = << <<53, 10>> >>
        /\ exitCode = <<0>>

\* what listing 4-7's main may have done at any point
Listing47Outcome ==
    prog = "listing_4_7" =>
        /\ stdout \in {<<>>, << <<54, 10>> >>}
        /\ stdout # <<>> => pc \in {"main_end", "exit"}
        /\ pc \in {"main_print", "main_end", "exit"} => results = <<6>>
        /\ pc \in {"main_end", "exit"} => stdout = << <<54, 10>> >>
        /\ pc # "main" => s = HelloWorld
        /\ exitCode = IF pc = "exit" THEN <<0>> ELSE <<>>

\* C4 amended: listing 4-7's main runs first_word on "hello, world!", obtains
\* 6 (the offset of the space after the comma), writes exactly one line "6\n",
\* and then reaches its successful exit with no further output.
C4_Listing47PrintsSix ==
    /\ []Listing47Outcome
    /\ (prog = "listing_4_7") ~> (prog = "listing_4_7" /\ pc = "exit")

\* listing 4-7 has exited after printing its line
C4_Witness ==
    /\ prog = "listing_4_7" /\ pc = "exit"
    /\ Len(stdout) = 1 /\ exitCode = <<0>>

\* C5 as stated: listing 5-4's main has built a user record by the time it
\* exits, has written nothing and exits with success.
C5_Original ==
    (prog = "listing_5_4" /\ pc = "exit") =>
        /\ Len(built) >= 1
        /\ stdout = <<>>
        /\ exitCode = <<0>>

\* C5 amended: listing 5-4's main never calls build_user: it builds no
\* record, writes nothing and exits with success.
C5_Listing54DoesNothing ==
    prog = "listing_5_4" =>
        /\ built = <<>>
        /\ stdout = <<>>
        /\ exitCode = IF pc = "exit" THEN <<0>> ELSE <<>>
        /\ pc \in {"main", "exit"}

\* listing 5-4 has exited
C5_Witness ==
    prog = "listing_5_4" /\ pc = "exit" /\ exitCode = <<0>> /\ built = <<>>

\* C6: no step of first_word changes the buffer or any state other than the
\* function's own locals (bytes, the enumeration, the current item, the
\* result).
C6_FirstWordFrame ==
    [][(pc \in FwPcs) =>
         UNCHANGED <<prog, s, results, stdout, exitCode, email, username, built>> ]_vars

\* a call has scanned at least two bytes of a buffer and returned
C6_Witness ==
    /\ prog = "first_word" /\ pc = "fw_ret"
    /\ Len(examined) >= 2 /\ Len(s) >= 2

\* C7: the results of successive calls of first_word on the same buffer are
\* all equal.
C7_SameResultTwice ==
    prog = "first_word" =>
        \A a, b \in 1..Len(results) : results[a] = results[b]

\* two calls have returned the offset of a space inside the buffer
C7_Witness ==
    /\ prog = "first_word" /\ pc = "done"
    /\ Len(results) >= 2
    /\ results[1] >= 1 /\ results[1] < Len(Buffer)

\* the indices read by the current call: 0, 1, 2, ... in order, at most
\* length(T) of them, and none beyond the first space
ScanOrder ==
    /\ \A k \in 1..Len(examined) : examined[k] = k - 1
    /\ Len(examined) <= Len(Buffer)
    /\ \A k \in 1..Len(examined) : \A j \in 1..examined[k] : Buffer[j] # 32

\* C8: every call of first_word returns; it reads the bytes in strictly
\* increasing index order from 0, never reads an index twice, reads nothing
\* after the first space and reads at most length(T) bytes.
C8_LinearScanTerminates ==
    /\ []ScanOrder
    /\ (pc = "fw_entry") ~> (pc = "fw_ret")

\* a call stopped at a space and left at least one byte unread
C8_Witness ==
    /\ pc = "fw_ret"
    /\ Len(examined) >= 2
    /\ Len(examined) < Len(Buffer)

\* C9: the result is the number of BYTES of the characters before the first
\* space character: tabs, newlines and the bytes of multi-byte characters are
\* not delimiters, and every byte of a multi-byte character counts.
C9_ByteOffsetSpaceOnly ==
    ret # <<>> =>
        LET before == CharsBeforeSpace(s)
        IN  /\ ret[1] = Len(AsBytes(before))
            /\ ret[1] >= Len(before)

\* a call skipped a tab and a multi-byte character, found the space after
\* them, and returned more than the number of characters before the space
C9_Witness ==
    /\ prog = "first_word" /\ ret # <<>>
    /\ LET before == CharsBeforeSpace(s)
       IN  /\ Len(before) < Len(s)
           /\ \E k \in 1..Len(before) : before[k] = 9
           /\ \E k \in 1..Len(before) : before[k] > 127
           /\ ret[1] > Len(before)

\* C10: while the scan is at index i and has not returned, 0 <= i <= length(T)
\* and no byte before offset i is a space; the loop ends only when no byte of
\* T is a space.
C10_LoopInvariant ==
    pc \in {"fw_iter", "fw_body", "fw_fall"} =>
        LET T == Buffer
            i == IF pc = "fw_body" THEN cur[1] ELSE count
        IN  /\ i \in 0..Len(T)
            /\ \A j \in 1..i : T[j] # 32
            /\ pc = "fw_body" => i < Len(T) /\ cur[2] = T[i + 1] /\ count = i + 1
            /\ pc = "fw_fall" => i = Len(T) /\ NoSpaceIn(T)

\* the loop has run off the end of a buffer of at least two bytes
C10_Witness ==
    pc = "fw_fall" /\ Len(Buffer) >= 2

====
